---- MODULE Spec2Model ----
(***************************************************************************)
(* Decode-and-suppress pipeline of the CenterNet detector:                 *)
(* Prediction.__init__, Prediction.forward and                             *)
(* Prediction._non_maximum_suppression of                                  *)
(* CenterNet/core/utils/dataprocessing/prediction.py.                      *)
(*                                                                         *)
(* Numbers.  Scores are integers in hundredths (ScoreOne = 1.0), grid      *)
(* coordinates, offsets and sizes are integers in half pixels              *)
(* (CoordOne = 1 pixel), so that w / 2 is exact for whole-pixel sizes.     *)
(* Tensors are nested functions over 0-based index ranges,                 *)
(* t[b][c][y][x]; lists along the top-k axis are 1-based sequences.        *)
(***************************************************************************)
EXTENDS Integers, Sequences, FiniteSets, TLC

VARIABLES
    cfg,        \* the Prediction object: fields set by __init__
    heatmap,    \* forward argument (batch, channel, height, width)
    offset,     \* forward argument (batch, 2, height, width)
    wh,         \* forward argument (batch, 2, height, width)
    pc,         \* position inside forward
    hm,         \* local heatmap after the peak filter (line 85)
    scores,     \* local scores  [b][k]
    indices,    \* local indices [b][k] (flat indices returned by topk)
    ids,        \* local ids     [b][k]
    xmin,       \* local xmin    [b][k]
    ymin,       \* local ymin    [b][k]
    xmax,       \* local xmax    [b][k]
    ymax,       \* local ymax    [b][k]
    gathered,   \* values read by the gather of lines 124-131: xs, ys, w, h
    nmsb,       \* batch item the suppression loop of line 157 is at
    nmsu,       \* position in unique_id the loop of line 163 is at
    parts,      \* id_list / score_list / bbox_list of the current batch item
    stacked,    \* ids_list / scores_list / bboxes_list
    lastNms,    \* what the latest _non_maximum_suppression call did
    result,     \* what forward returned or raised
    calls       \* forward calls this object has completed before this one

vars == <<cfg, heatmap, offset, wh, pc, hm, scores, indices, ids,
          xmin, ymin, xmax, ymax, gathered, nmsb, nmsu, parts, stacked,
          lastNms, result, calls>>

(***************************************************************************)
(* Units and bounds                                                        *)
(***************************************************************************)
ScoreOne == 100
CoordOne == 2

MaxBatch == 2
MaxClasses == 2
MaxElems == 2
MaxTopK == 2
MaxPeakDim == 3
MaxPeakCells == 9
MaxNonZero == 3
MaxCalls == 2

\* heatmap values: nothing, 0.7 and 0.9
HeatVals == {0, 70, 90}
\* except_class_thresh: the default 0.01, and 0.7 (equal to a heatmap value)
ExceptThreshs == {1, 70}
\* nms_thresh: the default 0.5 and the two ends of the closed interval
NmsThreshs == {0, 50, ScoreOne}
Scales == {1, 4}

(***************************************************************************)
(* Tensor helpers                                                          *)
(***************************************************************************)
None == [none |-> TRUE]

Rng(n) == 0 .. (n - 1)

Dim0(t) == Cardinality(DOMAIN t)
Dim1(t) == Cardinality(DOMAIN t[0])
Dim2(t) == Cardinality(DOMAIN t[0][0])
Dim3(t) == Cardinality(DOMAIN t[0][0][0])

Tensors(b, c, h, w, vals) == [Rng(b) -> [Rng(c) -> [Rng(h) -> [Rng(w) -> vals]]]]

MaxOf(S) == CHOOSE m \in S : \A v \in S : v <= m

(***************************************************************************)
(* nn.MaxPool2d(3, stride=1, padding=1): the window of a cell is the 3x3   *)
(* block around it inside its own (batch, channel) plane; padded cells     *)
(* hold -inf and never win, so only in-bounds cells are compared.          *)
(***************************************************************************)
\* variant: a 5x5 window (kernel 5, padding 2)
WindowWide(t, y, x) ==
    {<<yy, xx>> \in (Rng(Dim2(t)) \X Rng(Dim3(t))) :
        /\ yy >= y - 2 /\ yy <= y + 2
        /\ xx >= x - 2 /\ xx <= x + 2}

Window(t, y, x) ==
    {<<yy, xx>> \in (Rng(Dim2(t)) \X Rng(Dim3(t))) :
        /\ yy >= y - 1 /\ yy <= y + 1
        /\ xx >= x - 1 /\ xx <= x + 1}

HeatmapNms(t) ==
    [b \in DOMAIN t |-> [c \in DOMAIN t[b] |-> [y \in DOMAIN t[b][c] |->
        [x \in DOMAIN t[b][c][y] |->
            MaxOf({t[b][c][p[1]][p[2]] : p \in Window(t, y, x)})]]]]

\* variant: the pooled heatmap is used as it is, without the keep mask
PeakFilterPooled(t) == HeatmapNms(t)

\* keep = self._heatmap_nms(heatmap) == heatmap ; heatmap = torch.mul(keep, heatmap)
PeakFilter(t) ==
    LET pooled == HeatmapNms(t)
    IN  [b \in DOMAIN t |-> [c \in DOMAIN t[b] |-> [y \in DOMAIN t[b][c] |->
            [x \in DOMAIN t[b][c][y] |->
                LET keep == IF pooled[b][c][y][x] = t[b][c][y][x] THEN 1 ELSE 0
                IN  keep * t[b][c][y][x]]]]]

(***************************************************************************)
(* Errors: a call that raises returns no tensors.                          *)
(***************************************************************************)
Raise(kind) == [err |-> kind]
IsErr(r) == "err" \in DOMAIN r

(***************************************************************************)
(* heatmap.reshape((batch, -1)): row-major layout over (channel, y, x)     *)
(***************************************************************************)
FlatIndex(c, y, x, height, width) == (c * height + y) * width + x

HeatmapResize(t) ==
    LET channel == Dim1(t)
        height == Dim2(t)
        width == Dim3(t)
    IN  [b \in DOMAIN t |-> [f \in Rng(channel * height * width) |->
            LET cell == CHOOSE q \in (Rng(channel) \X Rng(height) \X Rng(width)) :
                            FlatIndex(q[1], q[2], q[3], height, width) = f
            IN  t[b][cell[1]][cell[2]][cell[3]]]]

(***************************************************************************)
(* heatmap_resize.topk(k, dim=-1, largest=True, sorted=True) on one row:   *)
(* k distinct positions, values descending, nothing left out is larger     *)
(* than the last one taken.  The order among equal values is not           *)
(* specified by the library, so every such selection is an outcome.        *)
(***************************************************************************)
\* variant: sorted=False, the k largest in any order
TopKSelectionsUnsorted(row, k) ==
    {s \in [1 .. k -> DOMAIN row] :
        /\ \A i, j \in 1 .. k : i < j => s[i] # s[j]
        /\ \A f \in DOMAIN row :
              (\A i \in 1 .. k : s[i] # f) => \A i \in 1 .. k : row[f] <= row[s[i]]}

TopKSelections(row, k) ==
    {s \in [1 .. k -> DOMAIN row] :
        /\ \A i, j \in 1 .. k : i < j => (s[i] # s[j] /\ row[s[i]] >= row[s[j]])
        /\ \A f \in DOMAIN row :
              (\A i \in 1 .. k : s[i] # f) => \A i \in 1 .. k : row[f] <= row[s[i]]}

\* variant: the quotient rounded up
FloorDivideUp(a, n) == (a + n - 1) \div n

\* torch.floor_divide and torch.fmod on non-negative int64 operands
FloorDivide(a, n) == a \div n
Fmod(a, n) == a % n

(***************************************************************************)
(* t.permute(0, 2, 3, 1) read in row-major order: position                 *)
(* ((b*H + y)*W + x)*Ch + ch holds t[b][ch][y][x]                          *)
(***************************************************************************)
PermuteFlat(t) ==
    LET ch == Dim1(t)
        h == Dim2(t)
        w == Dim3(t)
    IN  [i \in Rng(Dim0(t) * h * w * ch) |->
            t[i \div (ch * w * h)][i % ch][(i \div (ch * w)) % h][(i \div ch) % w]]

\* .reshape((batch, -1, 2)) of that sequence
Reshape3(flat, batch) ==
    LET total == Cardinality(DOMAIN flat)
    IN  IF total % (batch * 2) # 0
        THEN Raise("reshape")
        ELSE LET n == total \div (batch * 2)
             IN  [n0 |-> batch, n1 |-> n, n2 |-> 2,
                  at |-> [b \in Rng(batch) |-> [p \in Rng(n) |-> [c \in Rng(2) |->
                            flat[(b * n + p) * 2 + c]]]]]

\* row-major flattening of a (rows, topk) list of sequences
FlattenRows(m) ==
    LET RECURSIVE go(_)
        go(b) == IF b \notin DOMAIN m THEN <<>> ELSE m[b] \o go(b + 1)
    IN  go(0)

\* .reshape((-1, cols)) of a flat sequence, as [row -> sequence]
ReshapeRows(flat, cols) ==
    IF cols = 0 \/ Len(flat) % cols # 0
    THEN Raise("reshape")
    ELSE [rows |-> [r \in Rng(Len(flat) \div cols) |->
                        [k \in 1 .. cols |-> flat[r * cols + k]]]]

\* t[i0, i1, i2] with three index lists of equal length (advanced indexing)
Gather3(t, i0, i1, i2) ==
    IF \E p \in 1 .. Len(i0) :
          \/ i0[p] \notin Rng(t.n0)
          \/ i1[p] \notin Rng(t.n1)
          \/ i2[p] \notin Rng(t.n2)
    THEN Raise("index")
    ELSE [vals |-> [p \in 1 .. Len(i0) |-> t.at[i0[p]][i1[p]][i2[p]]]]

\* elementwise a + b of a (B, k) and a (R, k) list with broadcasting of rows
AddRows(a, b) ==
    LET na == Cardinality(DOMAIN a)
        nb == Cardinality(DOMAIN b)
    IN  IF na # nb /\ na # 1 /\ nb # 1
        THEN Raise("broadcast")
        ELSE [rows |-> [r \in Rng(IF na > nb THEN na ELSE nb) |->
                LET ra == IF na = 1 THEN a[0] ELSE a[r]
                    rb == IF nb = 1 THEN b[0] ELSE b[r]
                IN  [k \in DOMAIN ra |-> ra[k] + rb[k]]]]

\* .reshape((3, -1)) of a flat sequence
ReshapeThree(flat) ==
    IF Len(flat) % 3 # 0
    THEN Raise("reshape")
    ELSE LET n == Len(flat) \div 3
         IN  [rows |-> [r \in Rng(3) |-> [k \in 1 .. n |-> flat[r * n + k]]]]

(***************************************************************************)
(* Lines 112-120: the three index lists of the gather.                     *)
(* batch_indices = arange(self._batch_size)[:offset.shape[0], None]        *)
(*                   .repeat_interleave(self._topk, dim=-1)                *)
(* chan is 0 for offset_xs_indices and 1 for offset_ys_indices.            *)
(***************************************************************************)
\* variant: every row of the gather reads batch item 0
BatchIndicesZero(batch_size, batch, topk) ==
    [r \in Rng(IF batch_size < batch THEN batch_size ELSE batch) |->
        [k \in 1 .. topk |-> 0]]

BatchIndices(batch_size, batch, topk) ==
    [r \in Rng(IF batch_size < batch THEN batch_size ELSE batch) |->
        [k \in 1 .. topk |-> r]]

GatherIndex(batch_indices, topk_indices, chan) ==
    LET chan_indices == [r \in DOMAIN batch_indices |->
                            [k \in DOMAIN batch_indices[r] |-> chan]]
    IN  ReshapeThree(FlattenRows(batch_indices) \o FlattenRows(topk_indices)
                        \o FlattenRows(chan_indices))

\* lines 124-125, 130-131: t[index[0], index[1], index[2]].reshape((-1, topk))
GatherRows(t, index, topk) ==
    LET got == Gather3(t, index.rows[0], index.rows[1], index.rows[2])
    IN  IF IsErr(got) THEN got ELSE ReshapeRows(got.vals, topk)

\* variant: the whole size is used where half of it is meant
HalfOfWhole(v) == v

\* w / 2 on a size held in half pixels (sizes are whole pixels)
HalfOf(v) == v \div 2

(***************************************************************************)
(* Lines 103-136: box recovery for the picks idx of a (batch, channel,     *)
(* height, width) heatmap.  Returns the gathered xs, ys, w, h and the four *)
(* box columns, or the error the first failing statement raises.           *)
(***************************************************************************)
Decode(c, off, size, idx, batch, height, width) ==
    LET offsetR == Reshape3(PermuteFlat(off), batch)
        whR == Reshape3(PermuteFlat(size), batch)
        topk_indices == [b \in DOMAIN idx |-> [k \in DOMAIN idx[b] |->
                            Fmod(idx[b][k], height * width)]]
        topk_ys == [b \in DOMAIN idx |-> [k \in DOMAIN idx[b] |->
                            CoordOne * FloorDivide(topk_indices[b][k], width)]]
        topk_xs == [b \in DOMAIN idx |-> [k \in DOMAIN idx[b] |->
                            CoordOne * Fmod(topk_indices[b][k], width)]]
        batch_indices == BatchIndices(c.batch_size, batch, c.topk)
        offset_xs == GatherIndex(batch_indices, topk_indices, 0)
        offset_ys == GatherIndex(batch_indices, topk_indices, 1)
    IN  IF IsErr(offsetR) THEN offsetR
        ELSE IF IsErr(whR) THEN whR
        ELSE IF IsErr(offset_xs) THEN offset_xs
        ELSE
        LET xs == GatherRows(offsetR, offset_xs, c.topk)
            ys == GatherRows(offsetR, offset_ys, c.topk)
        IN  IF IsErr(xs) THEN xs
            ELSE IF IsErr(ys) THEN ys
            ELSE
            LET cx == AddRows(topk_xs, xs.rows)
                cy == AddRows(topk_ys, ys.rows)
                w == GatherRows(whR, offset_xs, c.topk)
                h == GatherRows(whR, offset_ys, c.topk)
            IN  IF IsErr(cx) THEN cx
                ELSE IF IsErr(cy) THEN cy
                ELSE IF IsErr(w) THEN w
                ELSE IF IsErr(h) THEN h
                ELSE
                LET half_w == [b \in DOMAIN w.rows |-> [k \in DOMAIN w.rows[b] |->
                                    HalfOf(w.rows[b][k])]]
                    half_h == [b \in DOMAIN h.rows |-> [k \in DOMAIN h.rows[b] |->
                                    HalfOf(h.rows[b][k])]]
                    neg(m) == [b \in DOMAIN m |-> [k \in DOMAIN m[b] |-> -m[b][k]]]
                    x0 == AddRows(cx.rows, neg(half_w))
                    y0 == AddRows(cy.rows, neg(half_h))
                    x1 == AddRows(cx.rows, half_w)
                    y1 == AddRows(cy.rows, half_h)
                IN  IF IsErr(x0) THEN x0
                    ELSE IF IsErr(y0) THEN y0
                    ELSE [xs |-> xs.rows, ys |-> ys.rows, w |-> w.rows, h |-> h.rows,
                          xmin |-> x0.rows, ymin |-> y0.rows,
                          xmax |-> x1.rows, ymax |-> y1.rows]

(***************************************************************************)
(* Lines 138-144: torch.where(except_mask, v, torch.ones_like(v) * -1)     *)
(***************************************************************************)
\* variant: the mask is applied the wrong way round
WhereMaskInverted(sc, thresh, m, one) ==
    [b \in DOMAIN m |-> [k \in DOMAIN m[b] |->
        IF sc[b][k] > thresh THEN one * (-1) ELSE m[b][k]]]

\* variant: no gate, every pick keeps its values
WhereMaskKeep(sc, thresh, m, one) == m

WhereMask(sc, thresh, m, one) ==
    [b \in DOMAIN m |-> [k \in DOMAIN m[b] |->
        IF sc[b][k] > thresh THEN m[b][k] ELSE one * (-1)]]

(***************************************************************************)
(* _non_maximum_suppression (lines 16-77)                                  *)
(***************************************************************************)
PermsOf(n) ==
    {p \in [1 .. n -> 1 .. n] : \A i, j \in 1 .. n : i # j => p[i] # p[j]}

\* scores.argsort(dim=0, descending=True)[:,0]: a permutation that puts the
\* scores in descending order; argsort is not stable, so equal scores may
\* come out in either order.
ArgsortDescending(sc) ==
    {p \in PermsOf(Len(sc)) :
        \A i, j \in 1 .. Len(sc) : i < j => sc[p[i]] >= sc[p[j]]}

\* v[indices]
Take(v, ind) == [k \in 1 .. Len(ind) |-> v[ind[k]]]

Larger(a, b) == IF a >= b THEN a ELSE b

\* num / den > thresh in floating point, thresh held in hundredths:
\* x / 0 is +inf, -inf or nan, and only +inf exceeds a threshold.
RatioExceeds(num, den, thresh) ==
    IF den > 0 THEN num * ScoreOne > thresh * den
    ELSE IF den < 0 THEN num * ScoreOne < thresh * den
    ELSE num > 0

\* lines 49-55 for the pair (i, j): the term w * h and the denominator
\* x1[i] + x1[j] - w * h, both in square half pixels
PairTerms(x1, y1, x2, y2, i, j) ==
    LET xx1 == Larger(x1[i], x1[j])
        yy1 == Larger(y1[i], y1[j])
        xx2 == Larger(x2[i], x2[j])
        yy2 == Larger(y2[i], y2[j])
        w == xx2 - xx1 + CoordOne
        h == yy2 - yy1 + CoordOne
    IN  [i |-> i, j |-> j, area |-> w * h,
         den |-> CoordOne * (x1[i] + x1[j]) - w * h]

\* line 56 for the pair (i, j): the value written to mask[j]
MaskValue(x1, y1, x2, y2, i, j, thresh) ==
    LET t == PairTerms(x1, y1, x2, y2, i, j)
    IN  IF RatioExceeds(t.area, t.den, thresh) THEN 1 ELSE -1

\* variant: the loop of line 48 runs while i < len(ids)
MaskLoopToEnd(x1, y1, x2, y2, thresh) ==
    LET n == Len(x1)
        RECURSIVE loop(_, _, _)
        loop(i, mask, passes) ==
            IF ~(i - 1 < n)
            THEN [mask |-> mask, passes |-> passes]
            ELSE loop(i + 1,
                      [j \in 1 .. n |->
                          IF j > i THEN MaskValue(x1, y1, x2, y2, i, j, thresh)
                          ELSE mask[j]],
                      passes + 1)
    IN  loop(1, [j \in 1 .. n |-> 1], 0)

\* lines 46-57: the while loop, i counted from 1
MaskLoop(x1, y1, x2, y2, thresh) ==
    LET n == Len(x1)
        RECURSIVE loop(_, _, _)
        loop(i, mask, passes) ==
            IF ~(i - 1 < n - 1)
            THEN [mask |-> mask, passes |-> passes]
            ELSE loop(i + 1,
                      [j \in 1 .. n |->
                          IF j > i THEN MaskValue(x1, y1, x2, y2, i, j, thresh)
                          ELSE mask[j]],
                      passes + 1)
    IN  loop(1, [j \in 1 .. n |-> 1], 0)

\* variant: lines 69-74 flip the sign of the positive entries
MaskColumnFlipped(v, mask) ==
    [k \in 1 .. Len(v) |->
        LET m == v[k] * mask[k]
        IN  IF m > 0 THEN m * (-1) ELSE m]

\* lines 61-66 and 69-74 on one column: v * mask, then torch.where(v<0, v*-1, v)
MaskColumn(v, mask) ==
    [k \in 1 .. Len(v) |->
        LET m == v[k] * mask[k]
        IN  IF m < 0 THEN m * (-1) ELSE m]

Column(bboxes, c) == [k \in 1 .. Len(bboxes) |-> bboxes[k][c]]

\* variant: without the early return of lines 29-30
NonMaximumSuppressionAlways(p_ids, p_scores, p_bboxes, thresh, ind) ==
    LET s_ids == Take(p_ids, ind)
        s_scores == Take(p_scores, ind)
        x1 == Take(Column(p_bboxes, 1), ind)
        y1 == Take(Column(p_bboxes, 2), ind)
        x2 == Take(Column(p_bboxes, 3), ind)
        y2 == Take(Column(p_bboxes, 4), ind)
        lp == MaskLoop(x1, y1, x2, y2, thresh)
        m_x1 == MaskColumn(x1, lp.mask)
        m_y1 == MaskColumn(y1, lp.mask)
        m_x2 == MaskColumn(x2, lp.mask)
        m_y2 == MaskColumn(y2, lp.mask)
    IN  [ids |-> MaskColumn(s_ids, lp.mask),
         scores |-> MaskColumn(s_scores, lp.mask),
         bboxes |-> [k \in 1 .. Len(p_ids) |-> <<m_x1[k], m_y1[k], m_x2[k], m_y2[k]>>],
         n |-> Len(p_ids), passes |-> lp.passes, order |-> ind, mask |-> lp.mask]

\* the call with the argsort outcome ind
NonMaximumSuppression(p_ids, p_scores, p_bboxes, thresh, ind) ==
    IF Len(p_ids) = 1
    THEN [ids |-> p_ids, scores |-> p_scores, bboxes |-> p_bboxes,
          n |-> 1, passes |-> 0, order |-> <<1>>, mask |-> <<1>>]
    ELSE
    LET s_ids == Take(p_ids, ind)
        s_scores == Take(p_scores, ind)
        x1 == Take(Column(p_bboxes, 1), ind)
        y1 == Take(Column(p_bboxes, 2), ind)
        x2 == Take(Column(p_bboxes, 3), ind)
        y2 == Take(Column(p_bboxes, 4), ind)
        lp == MaskLoop(x1, y1, x2, y2, thresh)
        m_x1 == MaskColumn(x1, lp.mask)
        m_y1 == MaskColumn(y1, lp.mask)
        m_x2 == MaskColumn(x2, lp.mask)
        m_y2 == MaskColumn(y2, lp.mask)
    IN  [ids |-> MaskColumn(s_ids, lp.mask),
         scores |-> MaskColumn(s_scores, lp.mask),
         bboxes |-> [k \in 1 .. Len(p_ids) |-> <<m_x1[k], m_y1[k], m_x2[k], m_y2[k]>>],
         n |-> Len(p_ids), passes |-> lp.passes, order |-> ind, mask |-> lp.mask]

(***************************************************************************)
(* Lines 154-166: unique_id and the rows of one class in one batch item    *)
(***************************************************************************)
SortedSeq(S) ==
    LET RECURSIVE go(_)
        go(T) == IF T = {} THEN <<>>
                 ELSE LET m == CHOOSE v \in T : \A u \in T : v <= u
                      IN  <<m>> \o go(T \ {m})
    IN  go(S)

\* ids.unique().to(torch.long): the distinct ids of the whole batch, ascending
UniqueId(idm) == SortedSeq({idm[b][k] : b \in DOMAIN idm, k \in 1 .. Len(idm[0])})

\* v[id == uid, None]: the entries of v at the rows whose id is uid, in row order
Select(v, idrow, uid) ==
    LET RECURSIVE go(_)
        go(k) == IF k > Len(idrow) THEN <<>>
                 ELSE (IF idrow[k] = uid THEN <<v[k]>> ELSE <<>>) \o go(k + 1)
    IN  go(1)

(***************************************************************************)
(* Inputs of a call.  Offsets and sizes are shared by all classes of a     *)
(* cell; "coded" tensors hold a different value at every (b, ch, y, x), so *)
(* a value read from the wrong place is a different value.                 *)
(***************************************************************************)
Shapes ==
    {q \in ((1 .. MaxBatch) \X (1 .. MaxClasses) \X (1 .. MaxElems) \X (1 .. MaxElems)) :
        q[1] * q[2] * q[3] * q[4] <= MaxElems}

Code(b, ch, y, x, h, w) == 1 + ch + 2 * (x + w * (y + h * b))

ZeroTensor(b, h, w) ==
    [bi \in Rng(b) |-> [ch \in Rng(2) |-> [y \in Rng(h) |-> [x \in Rng(w) |-> 0]]]]

CodedOffset(b, h, w) ==
    [bi \in Rng(b) |-> [ch \in Rng(2) |-> [y \in Rng(h) |-> [x \in Rng(w) |->
        Code(bi, ch, y, x, h, w)]]]]

\* the same width and height (in pixels) at every cell
ConstSize(b, h, w, pw, ph) ==
    [bi \in Rng(b) |-> [ch \in Rng(2) |-> [y \in Rng(h) |-> [x \in Rng(w) |->
        CoordOne * (IF ch = 0 THEN pw ELSE ph)]]]]

CodedSize(b, h, w) ==
    [bi \in Rng(b) |-> [ch \in Rng(2) |-> [y \in Rng(h) |-> [x \in Rng(w) |->
        CoordOne * Code(bi, ch, y, x, h, w)]]]]

\* (offset, wh) pairs: no offset with 2x2 boxes, no offset with 38x2 boxes
\* (two cells apart these overlap by 36/40), and coded offsets and sizes
OffsetSizePairs(b, h, w) ==
    { <<ZeroTensor(b, h, w), ConstSize(b, h, w, 2, 2)>>,
      <<ZeroTensor(b, h, w), ConstSize(b, h, w, 38, 2)>>,
      <<CodedOffset(b, h, w), CodedSize(b, h, w)>> }

\* __init__ stores its arguments; nms_thresh is only read when nms is set.
\* batch_size is the default 1 or the largest batch the model feeds.
Configs ==
    {c \in [batch_size : {1, MaxBatch}, topk : 1 .. MaxTopK, scale : Scales,
            nms : BOOLEAN, except_class_thresh : ExceptThreshs,
            nms_thresh : NmsThreshs] :
        ~c.nms => c.nms_thresh = 50}

NoParts == [ids |-> <<>>, scores |-> <<>>, bboxes |-> <<>>]

Locals ==
    /\ hm = None /\ scores = None /\ indices = None /\ ids = None
    /\ xmin = None /\ ymin = None /\ xmax = None /\ ymax = None
    /\ gathered = None /\ nmsb = 0 /\ nmsu = 1
    /\ parts = NoParts /\ stacked = <<>> /\ lastNms = None /\ result = None

\* a (1, 1, 1, 3) heatmap with 0.7 and 0.9 two cells apart
TwoPeaks ==
    [b \in Rng(1) |-> [c \in Rng(1) |-> [y \in Rng(1) |-> [x \in Rng(3) |->
        IF x = 0 THEN 70 ELSE IF x = 2 THEN 90 ELSE 0]]]]

\* a (2, 2, 1, 2) heatmap: item 0 holds two class-0 cells of 0.9, item 1 one
\* class-1 cell of 0.7
TwoItems ==
    [b \in Rng(2) |-> [c \in Rng(2) |-> [y \in Rng(1) |-> [x \in Rng(2) |->
        IF b = 0 /\ c = 0 THEN 90
        ELSE IF b = 1 /\ c = 1 /\ x = 0 THEN 70 ELSE 0]]]]

\* a (1, 1, 4, 4) heatmap with the single value 0.9 at row 1, column 2
LonePeak ==
    [b \in Rng(1) |-> [c \in Rng(1) |-> [y \in Rng(4) |-> [x \in Rng(4) |->
        IF y = 1 /\ x = 2 THEN 90 ELSE 0]]]]

Init ==
    /\ cfg \in Configs
    /\ \/ \E q \in Shapes :
             /\ heatmap \in Tensors(q[1], q[2], q[3], q[4], HeatVals)
             /\ \E os \in OffsetSizePairs(q[1], q[3], q[4]) :
                   offset = os[1] /\ wh = os[2]
       \/ /\ heatmap = LonePeak
          /\ offset = ZeroTensor(1, 4, 4)
          /\ wh = ConstSize(1, 4, 4, 2, 2)
       \/ /\ heatmap = TwoPeaks
          /\ offset = ZeroTensor(1, 1, 3)
          /\ wh = ConstSize(1, 1, 3, 38, 2)
       \/ /\ heatmap = TwoItems
          /\ offset = CodedOffset(2, 1, 2)
          /\ wh = CodedSize(2, 1, 2)
    /\ pc = "filter"
    /\ Locals
    /\ calls = 0

Batch == Dim0(heatmap)
Channel == Dim1(heatmap)
Height == Dim2(heatmap)
Width == Dim3(heatmap)

(***************************************************************************)
(* forward (lines 79-187), one action per stage                            *)
(***************************************************************************)
\* lines 84-86
PeakFilterStep ==
    /\ pc = "filter"
    /\ hm' = PeakFilter(heatmap)
    /\ pc' = "topk"
    /\ UNCHANGED <<calls, cfg, heatmap, offset, wh, scores, indices, ids, xmin, ymin,
                   xmax, ymax, gathered, nmsb, nmsu, parts, stacked, lastNms,
                   result>>

\* lines 89-95; topk raises when k exceeds the length of the row
TopKStep ==
    /\ pc = "topk"
    /\ LET rows == HeatmapResize(hm)
       IN  IF cfg.topk > Channel * Height * Width
           THEN /\ result' = Raise("topk")
                /\ pc' = "done"
                /\ UNCHANGED <<scores, indices, ids>>
           ELSE /\ \E sel \in [Rng(Batch) -> [1 .. cfg.topk -> Rng(Channel * Height * Width)]] :
                      /\ \A b \in Rng(Batch) : sel[b] \in TopKSelections(rows[b], cfg.topk)
                      /\ indices' = sel
                      /\ scores' = [b \in Rng(Batch) |-> [k \in 1 .. cfg.topk |->
                                        rows[b][sel[b][k]]]]
                      /\ ids' = [b \in Rng(Batch) |-> [k \in 1 .. cfg.topk |->
                                        FloorDivide(sel[b][k], Height * Width)]]
                /\ pc' = "decode"
                /\ UNCHANGED result
    /\ UNCHANGED <<calls, cfg, heatmap, offset, wh, hm, xmin, ymin, xmax, ymax,
                   gathered, nmsb, nmsu, parts, stacked, lastNms>>

\* lines 103-136
DecodeStep ==
    /\ pc = "decode"
    /\ LET d == Decode(cfg, offset, wh, indices, Batch, Height, Width)
       IN  IF IsErr(d)
           THEN /\ result' = d
                /\ pc' = "done"
                /\ UNCHANGED <<xmin, ymin, xmax, ymax, gathered>>
           ELSE /\ gathered' = [xs |-> d.xs, ys |-> d.ys, w |-> d.w, h |-> d.h]
                /\ xmin' = d.xmin /\ ymin' = d.ymin
                /\ xmax' = d.xmax /\ ymax' = d.ymax
                /\ pc' = "gate"
                /\ UNCHANGED result
    /\ UNCHANGED <<calls, cfg, heatmap, offset, wh, hm, scores, indices, ids,
                   nmsb, nmsu, parts, stacked, lastNms>>

\* variant: the interval of line 147 taken closed
NmsThreshValidClosed == cfg.nms_thresh >= 0 /\ cfg.nms_thresh <= ScoreOne

\* line 147
NmsThreshValid == cfg.nms_thresh > 0 /\ cfg.nms_thresh < ScoreOne

\* lines 138-147
GateStep ==
    /\ pc = "gate"
    /\ ids' = WhereMask(scores, cfg.except_class_thresh, ids, 1)
    /\ scores' = WhereMask(scores, cfg.except_class_thresh, scores, ScoreOne)
    /\ xmin' = WhereMask(scores, cfg.except_class_thresh, xmin, CoordOne)
    /\ ymin' = WhereMask(scores, cfg.except_class_thresh, ymin, CoordOne)
    /\ xmax' = WhereMask(scores, cfg.except_class_thresh, xmax, CoordOne)
    /\ ymax' = WhereMask(scores, cfg.except_class_thresh, ymax, CoordOne)
    /\ pc' = IF cfg.nms /\ NmsThreshValid THEN "nms" ELSE "return"
    /\ UNCHANGED <<calls, cfg, heatmap, offset, wh, hm, indices, gathered,
                   nmsb, nmsu, parts, stacked, lastNms, result>>

\* bboxes * self._scale on rows of <<xmin, ymin, xmax, ymax>>
Scaled(bb, scale) ==
    [b \in DOMAIN bb |-> [k \in DOMAIN bb[b] |->
        [c \in 1 .. 4 |-> bb[b][k][c] * scale]]]

\* lines 186-187 for a Prediction object c
PlainResult(c) ==
    [ids |-> ids, scores |-> scores,
     bboxes |-> Scaled([b \in DOMAIN ids |-> [k \in DOMAIN ids[b] |->
                            <<xmin[b][k], ymin[b][k], xmax[b][k], ymax[b][k]>>]],
                       c.scale)]

\* lines 185-187
ReturnPlain ==
    /\ pc = "return"
    /\ ~cfg.nms
    /\ result' = PlainResult(cfg)
    /\ pc' = "done"
    /\ UNCHANGED <<calls, cfg, heatmap, offset, wh, hm, scores, indices, ids, xmin,
                   ymin, xmax, ymax, gathered, nmsb, nmsu, parts, stacked,
                   lastNms>>

\* lines 146-147, 184: with nms set and nms_thresh outside (0, 1) nothing
\* assigns ids_concat before line 184 reads it
ReturnUnbound ==
    /\ pc = "return"
    /\ cfg.nms
    /\ result' = Raise("unbound")
    /\ pc' = "done"
    /\ UNCHANGED <<calls, cfg, heatmap, offset, wh, hm, scores, indices, ids, xmin,
                   ymin, xmax, ymax, gathered, nmsb, nmsu, parts, stacked,
                   lastNms>>

\* lines 163-177: one pass of the loop over unique_id for batch item nmsb
NmsCall ==
    /\ pc = "nms"
    /\ LET unique_id == UniqueId(ids)
           uid == unique_id[nmsu]
           id == ids[nmsb]
           bbox == [k \in 1 .. Len(id) |->
                       <<xmin[nmsb][k], ymin[nmsb][k], xmax[nmsb][k], ymax[nmsb][k]>>]
           p_ids == Select(id, id, uid)
           p_scores == Select(scores[nmsb], id, uid)
           p_bboxes == Select(bbox, id, uid)
       IN  \E ind \in ArgsortDescending(p_scores) :
              LET r == NonMaximumSuppression(p_ids, p_scores, p_bboxes,
                                             cfg.nms_thresh, ind)
                  grown == [ids |-> parts.ids \o r.ids,
                            scores |-> parts.scores \o r.scores,
                            bboxes |-> parts.bboxes \o r.bboxes]
              IN  /\ lastNms' = [b |-> nmsb, uid |-> uid, n |-> r.n,
                                 passes |-> r.passes, order |-> r.order,
                                 mask |-> r.mask]
                  /\ IF nmsu < Len(unique_id)
                     THEN /\ parts' = grown
                          /\ nmsu' = nmsu + 1
                          /\ UNCHANGED <<nmsb, stacked, pc>>
                     ELSE /\ stacked' = Append(stacked, grown)
                          /\ parts' = NoParts
                          /\ nmsu' = 1
                          /\ nmsb' = nmsb + 1
                          /\ pc' = IF nmsb + 1 < Batch THEN "nms" ELSE "stack"
    /\ UNCHANGED <<calls, cfg, heatmap, offset, wh, hm, scores, indices, ids, xmin,
                   ymin, xmax, ymax, gathered, result>>

\* variant: the nms branch returns bboxes_concat without the scale
NmsResultUnscaled(c) ==
    IF \E b \in 1 .. Len(stacked) : Len(stacked[b].ids) # Len(stacked[1].ids)
    THEN Raise("stack")
    ELSE [ids |-> [b \in Rng(Len(stacked)) |-> stacked[b + 1].ids],
          scores |-> [b \in Rng(Len(stacked)) |-> stacked[b + 1].scores],
          bboxes |-> [b \in Rng(Len(stacked)) |-> stacked[b + 1].bboxes]]

\* lines 180-184 for a Prediction object c; torch.stack needs every batch
\* item to have as many rows
NmsResult(c) ==
    IF \E b \in 1 .. Len(stacked) : Len(stacked[b].ids) # Len(stacked[1].ids)
    THEN Raise("stack")
    ELSE [ids |-> [b \in Rng(Len(stacked)) |-> stacked[b + 1].ids],
          scores |-> [b \in Rng(Len(stacked)) |-> stacked[b + 1].scores],
          bboxes |-> Scaled([b \in Rng(Len(stacked)) |-> stacked[b + 1].bboxes],
                            c.scale)]

\* lines 180-184
ReturnNms ==
    /\ pc = "stack"
    /\ result' = NmsResult(cfg)
    /\ pc' = "done"
    /\ UNCHANGED <<calls, cfg, heatmap, offset, wh, hm, scores, indices, ids, xmin,
                   ymin, xmax, ymax, gathered, nmsb, nmsu, parts, stacked,
                   lastNms>>

Next ==
    \/ PeakFilterStep
    \/ TopKStep
    \/ DecodeStep
    \/ GateStep
    \/ ReturnPlain
    \/ ReturnUnbound
    \/ NmsCall
    \/ ReturnNms

Spec == Init /\ [][Next]_vars

(***************************************************************************)
(* Peak extraction on larger grids: one batch item, the default            *)
(* configuration of train.py with topk = 2, every heatmap of up to         *)
(* MaxPeakCells cells of which at most MaxNonZero are not zero.            *)
(***************************************************************************)
NonZeroCells(t) ==
    {q \in (Rng(Dim1(t)) \X Rng(Dim2(t)) \X Rng(Dim3(t))) :
        t[0][q[1]][q[2]][q[3]] # 0}

PeakShapes ==
    {q \in ((1 .. MaxClasses) \X (1 .. MaxPeakDim) \X (1 .. MaxPeakDim)) :
        q[1] * q[2] * q[3] <= MaxPeakCells}

PeakConfig ==
    [batch_size |-> 1, topk |-> 2, scale |-> 4, nms |-> FALSE,
     except_class_thresh |-> 1, nms_thresh |-> 50]

InitPeak ==
    /\ cfg = PeakConfig
    /\ \E q \in PeakShapes :
          /\ heatmap \in {t \in Tensors(1, q[1], q[2], q[3], HeatVals) :
                              Cardinality(NonZeroCells(t)) <= MaxNonZero}
          /\ offset = ZeroTensor(1, q[2], q[3])
          /\ wh = ConstSize(1, q[2], q[3], 2, 2)
    /\ pc = "filter"
    /\ Locals
    /\ calls = 0

NextPeak ==
    \/ PeakFilterStep
    \/ TopKStep

SpecPeak == InitPeak /\ [][NextPeak]_vars

(***************************************************************************)
(* Calls whose three tensors disagree in shape: forward takes whatever it  *)
(* is given (line 79 checks nothing).  The heatmap holds 0.9 everywhere;   *)
(* offset and wh are coded and have independent (batch, height, width).    *)
(***************************************************************************)
AuxShapes ==
    {q \in ((1 .. MaxBatch) \X (1 .. MaxElems) \X (1 .. MaxElems)) :
        q[1] * q[2] * q[3] <= MaxElems}

InitMismatch ==
    /\ cfg \in Configs
    /\ \E q \in Shapes : \E so \in AuxShapes : \E sw \in AuxShapes :
          /\ ~(so = <<q[1], q[3], q[4]>> /\ sw = <<q[1], q[3], q[4]>>)
          /\ heatmap \in Tensors(q[1], q[2], q[3], q[4], {90})
          /\ offset = CodedOffset(so[1], so[2], so[3])
          /\ wh = CodedSize(sw[1], sw[2], sw[3])
    /\ pc = "filter"
    /\ Locals
    /\ calls = 0

SpecMismatch == InitMismatch /\ [][Next]_vars

(***************************************************************************)
(* One Prediction object called again and again (train.py lines 478-485    *)
(* call the same object for every validation batch).  A call starts with   *)
(* the object's fields and its three arguments; every local of forward is  *)
(* new.  Inputs: the two scenarios and every single-class, single-row      *)
(* heatmap with coded offsets and sizes.                                   *)
(***************************************************************************)
CallInputs ==
    { <<LonePeak, ZeroTensor(1, 4, 4), ConstSize(1, 4, 4, 2, 2)>>,
      <<TwoPeaks, ZeroTensor(1, 1, 3), ConstSize(1, 1, 3, 38, 2)>> }
    \cup UNION { { <<t, CodedOffset(q[1], 1, q[4]), CodedSize(q[1], 1, q[4])>> :
                     t \in Tensors(q[1], 1, 1, q[4], HeatVals) } :
                 q \in {r \in Shapes : r[2] = 1 /\ r[3] = 1} }

InitCalls ==
    /\ cfg \in Configs
    /\ \E in \in CallInputs : heatmap = in[1] /\ offset = in[2] /\ wh = in[3]
    /\ pc = "filter"
    /\ Locals
    /\ calls = 0

\* variant: the lists of the previous call are kept
ListAtEntryKept(kept) == kept

\* lines 149-151: ids_list, scores_list and bboxes_list are made anew by
\* every call; kept is what the previous call left in them
ListAtEntry(kept) == <<>>

\* the next call on the same object: forward assigns no attribute of self
CallAgain ==
    /\ pc = "done"
    /\ calls < MaxCalls
    /\ calls' = calls + 1
    /\ \E in \in CallInputs : heatmap' = in[1] /\ offset' = in[2] /\ wh' = in[3]
    /\ pc' = "filter"
    /\ hm' = None /\ scores' = None /\ indices' = None /\ ids' = None
    /\ xmin' = None /\ ymin' = None /\ xmax' = None /\ ymax' = None
    /\ gathered' = None /\ nmsb' = 0 /\ nmsu' = 1
    /\ parts' = NoParts /\ stacked' = ListAtEntry(stacked)
    /\ lastNms' = None /\ result' = None
    /\ UNCHANGED cfg

NextCalls ==
    \/ Next
    \/ CallAgain

SpecCalls == InitCalls /\ [][NextCalls]_vars

(***************************************************************************)
(* Vocabulary of the properties                                            *)
(***************************************************************************)
Returned == pc = "done" /\ ~IsErr(result)

\* the (class, row, column) cell a flat index of the ranking axis names
CellOf(f) ==
    CHOOSE q \in (Rng(Channel) \X Rng(Height) \X Rng(Width)) :
        FlatIndex(q[1], q[2], q[3], Height, Width) = f

\* topk has returned its picks
PicksTaken ==
    \/ pc \in {"decode", "gate", "return", "nms", "stack"}
    \/ pc = "done" /\ result # Raise("topk")

\* score of pick k of batch item b as topk returned it
PickScore(b, k) == HeatmapResize(hm)[b][indices[b][k]]

Gated(b, k) == PickScore(b, k) <= cfg.except_class_thresh

SentinelBox == <<-CoordOne, -CoordOne, -CoordOne, -CoordOne>>

\* row k of batch item b of a returned value is the sentinel
IsSentinel(r, b, k) ==
    /\ r.ids[b][k] = -1
    /\ r.scores[b][k] = -ScoreOne
    /\ r.bboxes[b][k] = SentinelBox

CountOf(S) == Cardinality(S)

\* C1: every forward call returns exactly topK rows per batch item: ids and
\* scores of shape (B, topK, 1) and boxes of shape (B, topK, 4).
C1_TopKCount ==
    pc = "done" =>
        /\ ~IsErr(result)
        /\ DOMAIN result.ids = Rng(Batch)
        /\ DOMAIN result.scores = Rng(Batch)
        /\ DOMAIN result.bboxes = Rng(Batch)
        /\ \A b \in Rng(Batch) :
              /\ Len(result.ids[b]) = cfg.topk
              /\ Len(result.scores[b]) = cfg.topk
              /\ Len(result.bboxes[b]) = cfg.topk
              /\ \A k \in 1 .. cfg.topk : Len(result.bboxes[b][k]) = 4

\* C2: a pick whose score does not exceed except_class_thresh (equality
\* included) is returned as classId -1, score -1, box (-1,-1,-1,-1).  Without
\* nms row k of the output is pick k; with nms the rows are regrouped, so as
\* many rows as there are such picks must be the sentinel.
C2_ConfidenceGating ==
    Returned =>
        \A b \in Rng(Batch) :
            IF cfg.nms
            THEN CountOf({k \in 1 .. cfg.topk : IsSentinel(result, b, k)})
                    >= CountOf({k \in 1 .. cfg.topk : Gated(b, k)})
            ELSE \A k \in 1 .. cfg.topk : Gated(b, k) => IsSentinel(result, b, k)

\* C3: with nms enabled, the rows gated to the sentinel before suppression
\* (they form the partition of id -1, returned first) are still the sentinel
\* in the output, one or several; none comes back with a non-negative class.
C3_SentinelSurvivesNms ==
    (Returned /\ cfg.nms) =>
        \A b \in Rng(Batch) :
            \A k \in 1 .. CountOf({j \in 1 .. cfg.topk : ids[b][j] = -1}) :
                /\ IsSentinel(result, b, k)
                /\ ~(result.ids[b][k] >= 0)

\* C4: for every batch item and class c >= 0, the output with nms enabled has
\* no more non-sentinel rows of class c than the output with nms disabled
\* (for the same picks: the rows whose gated id is c).
C4_SuppressionMonotone ==
    (Returned /\ cfg.nms) =>
        \A b \in Rng(Batch) : \A c \in 0 .. MaxClasses :
            CountOf({k \in 1 .. cfg.topk :
                        result.ids[b][k] = c /\ ~IsSentinel(result, b, k)})
                <= CountOf({k \in 1 .. cfg.topk :
                        PlainResult(cfg).ids[b][k] = c
                        /\ ~IsSentinel(PlainResult(cfg), b, k)})

\* textbook intersection over union of two boxes exceeds thresh (hundredths)
Smaller(a, b) == IF a <= b THEN a ELSE b
Positive(v) == IF v > 0 THEN v ELSE 0
BoxArea(p) == Positive(p[3] - p[1]) * Positive(p[4] - p[2])
Intersection(p, q) ==
    Positive(Smaller(p[3], q[3]) - Larger(p[1], q[1]))
        * Positive(Smaller(p[4], q[4]) - Larger(p[2], q[2]))
IoUExceeds(p, q, thresh) ==
    Intersection(p, q) * ScoreOne
        > thresh * (BoxArea(p) + BoxArea(q) - Intersection(p, q))

GatedBox(b, k) == <<xmin[b][k], ymin[b][k], xmax[b][k], ymax[b][k]>>

\* C5: with nms enabled, when a detection overlaps the highest-scoring
\* detection of its class in its batch item by more than nms_thresh, the
\* higher-scoring one is kept and the other one does not survive: no output
\* row carries its class and score.
C5_OverlapSuppressed ==
    (Returned /\ cfg.nms) =>
        \A b \in Rng(Batch) : \A i, j \in 1 .. cfg.topk :
            (/\ ids[b][i] >= 0
             /\ ids[b][j] = ids[b][i]
             /\ scores[b][i] > scores[b][j]
             /\ \A m \in 1 .. cfg.topk :
                   ids[b][m] = ids[b][i] => scores[b][m] <= scores[b][i]
             /\ IoUExceeds(GatedBox(b, i), GatedBox(b, j), cfg.nms_thresh))
            => /\ \E r \in 1 .. cfg.topk :
                     result.ids[b][r] = ids[b][i] /\ result.scores[b][r] = scores[b][i]
               /\ ~\E r \in 1 .. cfg.topk :
                     result.ids[b][r] = ids[b][j] /\ result.scores[b][r] = scores[b][j]

\* the box the reconstruction rules give pick k of batch item b, doubled:
\* 2 * (cx - w/2, cy - h/2, cx + w/2, cy + h/2) with cx = gridX + offset_x,
\* cy = gridY + offset_y read at the pick's own cell of batch item b
DoubleBoxOf(b, k) ==
    LET q == CellOf(indices[b][k])
        cx == CoordOne * q[3] + offset[b][0][q[2]][q[3]]
        cy == CoordOne * q[2] + offset[b][1][q[2]][q[3]]
        w == wh[b][0][q[2]][q[3]]
        h == wh[b][1][q[2]][q[3]]
    IN  <<2 * cx - w, 2 * cy - h, 2 * cx + w, 2 * cy + h>>

LonePeakCall ==
    /\ heatmap = LonePeak
    /\ cfg.topk = 1 /\ cfg.scale = 1 /\ cfg.except_class_thresh = 1 /\ ~cfg.nms

\* C6: with nms disabled, every pick whose score exceeds except_class_thresh
\* is returned with its class, its score and the box
\* scale * (cx - w/2, cy - h/2, cx + w/2, cy + h/2); the lone peak 0.9 at
\* (row 1, col 2) of a (1,1,4,4) heatmap with zero offset, wh = (2,2),
\* topK = 1 and scale = 1 comes back as class 0, score 0.9, box (1,0,3,2).
C6_BoxReconstruction ==
    (Returned /\ ~cfg.nms) =>
        /\ \A b \in Rng(Batch) : \A k \in 1 .. cfg.topk :
              ~Gated(b, k) =>
                  /\ result.ids[b][k] = CellOf(indices[b][k])[1]
                  /\ result.scores[b][k] = PickScore(b, k)
                  /\ \A c \in 1 .. 4 :
                        2 * result.bboxes[b][k][c] = cfg.scale * DoubleBoxOf(b, k)[c]
        /\ LonePeakCall =>
              /\ result.ids[0][1] = 0
              /\ result.scores[0][1] = 90
              /\ result.bboxes[0][1] = <<1 * CoordOne, 0 * CoordOne,
                                         3 * CoordOne, 2 * CoordOne>>

C6_Witness ==
    /\ Returned
    /\ LonePeakCall
    /\ result.bboxes[0][1] = <<2, 0, 6, 4>>

\* C7: for every batch size B of the inputs, equal to batch_size or not, the
\* decode goes through and the offset and size values used for pick k of
\* batch item b are those of batch item b at pick k's own cell.
C7_GatherOwnCell ==
    (PicksTaken /\ pc # "decode") =>
        /\ "xs" \in DOMAIN gathered
        /\ \A b \in Rng(Batch) : \A k \in 1 .. cfg.topk :
              LET q == CellOf(indices[b][k])
              IN  /\ gathered.xs[b][k] = offset[b][0][q[2]][q[3]]
                  /\ gathered.ys[b][k] = offset[b][1][q[2]][q[3]]
                  /\ gathered.w[b][k] = wh[b][0][q[2]][q[3]]
                  /\ gathered.h[b][k] = wh[b][1][q[2]][q[3]]

ScaleFactors == {2, 3}

\* the object with scale multiplied by f
WithScale(f) == [cfg EXCEPT !.scale = cfg.scale * f]

\* C8: for a factor f > 0, the call with scale * f returns the same class ids
\* and scores, and every box coordinate of every non-sentinel row multiplied
\* by f, with nms disabled and with nms enabled.
C8_ScaleLinearity ==
    Returned =>
        \A f \in ScaleFactors :
            LET other == IF cfg.nms THEN NmsResult(WithScale(f))
                         ELSE PlainResult(WithScale(f))
            IN  /\ ~IsErr(other)
                /\ other.ids = result.ids
                /\ other.scores = result.scores
                /\ \A b \in Rng(Batch) : \A k \in 1 .. cfg.topk :
                      result.ids[b][k] # -1 =>
                          \A c \in 1 .. 4 :
                              other.bboxes[b][k][c] = f * result.bboxes[b][k][c]

C8_Witness ==
    /\ Returned
    /\ cfg.nms
    /\ cfg.scale = 4
    /\ \E b \in Rng(Batch) : \E k \in 1 .. cfg.topk :
          /\ result.ids[b][k] = 0
          /\ result.scores[b][k] = 90
          /\ \A c \in 1 .. 4 : result.bboxes[b][k][c] # 0

\* the cells of the 3x3 neighbourhood of (y, x) that lie inside the grid
Neighbours(y, x) ==
    {q \in (Rng(Height) \X Rng(Width)) :
        /\ q[1] - y \in {-1, 0, 1}
        /\ q[2] - x \in {-1, 0, 1}}

LocalMax(b, c, y, x) ==
    \A q \in Neighbours(y, x) : heatmap[b][c][q[1]][q[2]] <= heatmap[b][c][y][x]

\* C9: the peak filter is idempotent: filtering the filtered heatmap returns
\* it unchanged.
C9_FilterIdempotent ==
    pc # "filter" => PeakFilter(hm) = hm

C9_Witness ==
    /\ pc # "filter"
    /\ hm # heatmap
    /\ \E c \in Rng(Channel) : \E y \in Rng(Height) : \E x \in Rng(Width) :
          /\ hm[0][c][y][x] > 0
          /\ \E q \in Neighbours(y, x) :
                /\ heatmap[0][c][q[1]][q[2]] > 0
                /\ hm[0][c][q[1]][q[2]] = 0

\* flat positions picked for batch item b
Picked(b) == {indices[b][k] : k \in 1 .. cfg.topk}

\* C10: after the filter a cell holds its heatmap value if that value is the
\* maximum of its 3x3 neighbourhood inside its own class channel (in-bounds
\* neighbours only) and zero otherwise; ties are kept, so two adjacent equal
\* peaks both survive, and both are among the top-K picks when no more than
\* K cells hold as large a filtered value.
C10_LocalMaxKept ==
    /\ pc # "filter" =>
          \A b \in Rng(Batch) : \A c \in Rng(Channel) :
          \A y \in Rng(Height) : \A x \in Rng(Width) :
              hm[b][c][y][x] = IF LocalMax(b, c, y, x) THEN heatmap[b][c][y][x] ELSE 0
    /\ pc = "decode" =>
          \A b \in Rng(Batch) : \A c \in Rng(Channel) :
          \A y \in Rng(Height) : \A x \in Rng(Width) :
          \A q \in Neighbours(y, x) \ {<<y, x>>} :
              (/\ heatmap[b][c][y][x] > 0
               /\ heatmap[b][c][q[1]][q[2]] = heatmap[b][c][y][x]
               /\ LocalMax(b, c, y, x)
               /\ LocalMax(b, c, q[1], q[2]))
              => /\ hm[b][c][y][x] = heatmap[b][c][y][x]
                 /\ hm[b][c][q[1]][q[2]] = heatmap[b][c][y][x]
                 /\ (CountOf({f \in Rng(Channel * Height * Width) :
                                 HeatmapResize(hm)[b][f] >= heatmap[b][c][y][x]})
                        <= cfg.topk)
                    => {FlatIndex(c, y, x, Height, Width),
                        FlatIndex(c, q[1], q[2], Height, Width)} \subseteq Picked(b)

C10_Witness ==
    /\ pc = "decode"
    /\ \E c \in Rng(Channel) : \E y \in Rng(Height) : \E x \in Rng(Width) :
       \E q \in Neighbours(y, x) \ {<<y, x>>} :
          /\ hm[0][c][y][x] = 70
          /\ hm[0][c][q[1]][q[2]] = 70
          /\ Picked(0) = {FlatIndex(c, y, x, Height, Width),
                          FlatIndex(c, q[1], q[2], Height, Width)}

\* batch and spatial dimensions of a (batch, channel, height, width) tensor
ShapeOf(t) == <<Dim0(t), Dim2(t), Dim3(t)>>

ShapesDisagree ==
    \/ ShapeOf(offset) # ShapeOf(heatmap)
    \/ ShapeOf(wh) # ShapeOf(heatmap)

\* C11: when the batch or spatial dimensions of heatmap, offset and wh
\* disagree, the call ends in an error before any decode computation: nothing
\* is gathered or gated, no suppression runs, and no detections are returned.
C11_MismatchFailsFast ==
    ShapesDisagree =>
        /\ "none" \in DOMAIN gathered
        /\ pc \notin {"gate", "return", "nms", "stack"}
        /\ pc = "done" => IsErr(result)

\* a configuration the specification calls invalid
InvalidConfig(c) ==
    \/ c.topk <= 0
    \/ c.scale <= 0
    \/ c.nms /\ ~(c.nms_thresh > 0 /\ c.nms_thresh < ScoreOne)

\* C12: a configuration with topK <= 0, scale <= 0 or, with nms enabled,
\* nms_thresh outside the open interval (0, 1) is rejected at construction:
\* no constructed Prediction object holds one, so no forward call runs on it.
C12_InvalidConfigRejected ==
    ~InvalidConfig(cfg)

Cells == Rng(Channel) \X Rng(Height) \X Rng(Width)

\* batch item b has nothing to detect: its filtered heatmap is all zero, or
\* all its heatmap values are below except_class_thresh
Degenerate(b) ==
    \/ \A q \in Cells : PeakFilter(heatmap)[b][q[1]][q[2]][q[3]] = 0
    \/ \A q \in Cells : heatmap[b][q[1]][q[2]][q[3]] < cfg.except_class_thresh

\* C13: a batch item whose filtered heatmap is all zero, or whose values are
\* all below except_class_thresh, raises no error and yields exactly topK
\* rows, every one the sentinel (-1, -1, (-1,-1,-1,-1)).
C13_DegenerateSentinels ==
    pc = "done" =>
        \A b \in Rng(Batch) :
            Degenerate(b) =>
                /\ ~IsErr(result)
                /\ Len(result.ids[b]) = cfg.topk
                /\ Len(result.scores[b]) = cfg.topk
                /\ Len(result.bboxes[b]) = cfg.topk
                /\ \A k \in 1 .. cfg.topk : IsSentinel(result, b, k)

\* C14: a forward call leaves the configuration of the object unchanged and
\* keeps no state: whatever calls came before, a call starts from the state
\* a call on a newly constructed object with the same configuration and
\* inputs starts from (every local unset, the lists empty), so it returns
\* the same outputs.
C14_Stateless ==
    [][/\ cfg' = cfg
       /\ pc' = "filter" =>
             /\ hm' = None /\ scores' = None /\ indices' = None /\ ids' = None
             /\ xmin' = None /\ ymin' = None /\ xmax' = None /\ ymax' = None
             /\ gathered' = None /\ nmsb' = 0 /\ nmsu' = 1
             /\ parts' = NoParts /\ stacked' = <<>>
             /\ lastNms' = None /\ result' = None]_vars

C14_Witness ==
    /\ calls = MaxCalls
    /\ Returned
    /\ cfg.nms
    /\ Len(stacked) = Batch

\* filtered value of the cell a flat index names, in batch item b
FilteredAt(b, f) == hm[b][CellOf(f)[1]][CellOf(f)[2]][CellOf(f)[3]]

NonZeroFlat(b) == {f \in Rng(Channel * Height * Width) : FilteredAt(b, f) # 0}

\* C15: top-K over the filtered heatmap flattened per batch item over
\* (class, row, col): the K scores are in non-increasing order, the K flat
\* indices are pairwise distinct, each score is the filtered value at its
\* index, every cell not selected holds at most the smallest selected score,
\* and with fewer than K non-zero cells the remaining slots hold zero-valued
\* cells (score 0, not the sentinel).
C15_TopKSelection ==
    pc = "decode" =>
        \A b \in Rng(Batch) :
            /\ Len(scores[b]) = cfg.topk /\ Len(indices[b]) = cfg.topk
            /\ \A i, j \in 1 .. cfg.topk :
                  i < j => /\ scores[b][i] >= scores[b][j]
                           /\ indices[b][i] # indices[b][j]
            /\ \A k \in 1 .. cfg.topk :
                  /\ indices[b][k] \in Rng(Channel * Height * Width)
                  /\ scores[b][k] = FilteredAt(b, indices[b][k])
            /\ \A f \in Rng(Channel * Height * Width) \ Picked(b) :
                  FilteredAt(b, f) <= scores[b][cfg.topk]
            /\ \A k \in 1 .. cfg.topk :
                  k > CountOf(NonZeroFlat(b)) => scores[b][k] = 0

C15_Witness ==
    /\ pc = "decode"
    /\ Channel * Height * Width >= 4
    /\ CountOf(NonZeroFlat(0)) = 1
    /\ scores[0] = <<90, 0>>

\* lines 93, 106, 109, 110 for one flat index f of the ranking axis
ClassIdOf(f) == FloorDivide(f, Height * Width)
GridYOf(f) == FloorDivide(Fmod(f, Height * Width), Width)
GridXOf(f) == Fmod(Fmod(f, Height * Width), Width)

\* C16: index decoding is a bijection between flat indices and cells: for
\* every f in [0, numClasses*height*width), classId = f // (height*width),
\* gridY = (f % (height*width)) // width and gridX = (f % (height*width)) %
\* width lie in range and classId*height*width + gridY*width + gridX = f;
\* every cell is the image of a flat index, and the class id the call gives
\* a pick is the classId of its flat index.
C16_IndexBijection ==
    /\ \A f \in Rng(Channel * Height * Width) :
          /\ ClassIdOf(f) \in Rng(Channel)
          /\ GridYOf(f) \in Rng(Height)
          /\ GridXOf(f) \in Rng(Width)
          /\ ClassIdOf(f) * Height * Width + GridYOf(f) * Width + GridXOf(f) = f
    /\ \A q \in Cells : \E f \in Rng(Channel * Height * Width) :
          q = <<ClassIdOf(f), GridYOf(f), GridXOf(f)>>
    /\ pc = "decode" =>
          \A b \in Rng(Batch) : \A k \in 1 .. cfg.topk :
              ids[b][k] = ClassIdOf(indices[b][k])

C16_Witness ==
    /\ pc = "decode"
    /\ Channel = 2 /\ Height = 2 /\ Width = 2
    /\ ids[0][1] = 1
    /\ GridYOf(indices[0][1]) = 1
    /\ GridXOf(indices[0][1]) = 0
    /\ indices[0][1] = 6

\* a _non_maximum_suppression call has been made
NmsCalled == "n" \in DOMAIN lastNms

\* the list the latest call's rows were appended to: id_list / score_list /
\* bbox_list of its batch item, or that item's entry of the stacked lists
\* once the item is finished
LastList ==
    IF Len(stacked) > lastNms.b THEN stacked[lastNms.b + 1] ELSE parts

LastRows(v) == SubSeq(v, Len(v) - lastNms.n + 1, Len(v))

\* what the latest call returned
LastReturned ==
    [ids |-> LastRows(LastList.ids), scores |-> LastRows(LastList.scores),
     bboxes |-> LastRows(LastList.bboxes)]

\* what the latest call was given: the rows of class lastNms.uid in batch
\* item lastNms.b, in ranking order
LastGiven ==
    LET b == lastNms.b
        bbox == [k \in 1 .. Len(ids[b]) |-> GatedBox(b, k)]
    IN  [ids |-> Select(ids[b], ids[b], lastNms.uid),
         scores |-> Select(scores[b], ids[b], lastNms.uid),
         bboxes |-> Select(bbox, ids[b], lastNms.uid)]

\* C17: with nms enabled, a class partition of a batch item that holds
\* exactly one detection is returned by the suppression step unchanged (same
\* class id, same score, same box before the final scale) and no pass of the
\* comparison loop is made.
C17_SinglePartitionUnchanged ==
    (NmsCalled /\ lastNms.n = 1) =>
        /\ LastReturned = LastGiven
        /\ lastNms.passes = 0

C17_Witness ==
    /\ NmsCalled
    /\ lastNms.n = 1
    /\ LastGiven.ids = <<0>>
    /\ LastReturned.scores = <<90>>
    /\ cfg.topk = 2
    /\ Returned

\* row r of batch item b of the output is pick r of the ranking
RowIsPick(b, r) ==
    /\ result.ids[b][r] = ids[b][r]
    /\ result.scores[b][r] = scores[b][r]
    /\ \A c \in 1 .. 4 : result.bboxes[b][r][c] = GatedBox(b, r)[c] * cfg.scale

\* C18: with nms enabled, the rows of each batch item come out in the order
\* of the top-K ranking: row r of the output is pick r, as gated, or the
\* sentinel that took its place if pick r was suppressed.
C18_RankingOrderKept ==
    (Returned /\ cfg.nms) =>
        \A b \in Rng(Batch) :
            /\ Len(result.ids[b]) = cfg.topk
            /\ \A r \in 1 .. cfg.topk :
                  RowIsPick(b, r) \/ result.ids[b][r] = -1

\* C19: with nms enabled, a class partition of two or more detections is
\* returned in descending score order, and returned row k is one whole
\* detection of the partition: the class id, the score and the box of the
\* row the sort put at position k.
C19_SortedWholeRows ==
    (NmsCalled /\ lastNms.n >= 2 /\ lastNms.uid >= 0) =>
        /\ lastNms.order \in PermsOf(lastNms.n)
        /\ \A i, j \in 1 .. lastNms.n :
              i < j => LastReturned.scores[i] >= LastReturned.scores[j]
        /\ \A k \in 1 .. lastNms.n :
              /\ LastReturned.ids[k] = LastGiven.ids[lastNms.order[k]]
              /\ LastReturned.scores[k] = LastGiven.scores[lastNms.order[k]]
              /\ LastReturned.bboxes[k] = LastGiven.bboxes[lastNms.order[k]]

\* the rows of the latest call after the sort of lines 33-39
LastSorted(c) == Take(Column(LastGiven.bboxes, c), lastNms.order)

\* intersection area of sorted rows i and j: per axis the extent from the
\* larger min-corner to the smaller max-corner, plus pad (0, or one pixel
\* when corners are counted as pixels)
InterArea(i, j, pad) ==
    (Smaller(LastSorted(3)[i], LastSorted(3)[j])
        - Larger(LastSorted(1)[i], LastSorted(1)[j]) + pad)
    * (Smaller(LastSorted(4)[i], LastSorted(4)[j])
        - Larger(LastSorted(2)[i], LastSorted(2)[j]) + pad)

\* C20: in the suppression step the area term of a pair (i, j > i) of
\* same-class picks is the intersection area of the two boxes, and the
\* overlap compared against nms_thresh is that area divided by
\* x1[i] + x1[j] - area (the mask entry of j records the comparison of the
\* last pass that reached it, i = j - 1).
C20_IntersectionArea ==
    (NmsCalled /\ lastNms.n >= 2) =>
        \E pad \in {0, CoordOne} :
            \A i, j \in 1 .. lastNms.n :
                i < j =>
                    LET t == PairTerms(LastSorted(1), LastSorted(2),
                                       LastSorted(3), LastSorted(4), i, j)
                        inter == InterArea(i, j, pad)
                        den == CoordOne * (LastSorted(1)[i] + LastSorted(1)[j]) - inter
                    IN  /\ t.area = inter
                        /\ t.den = den
                        /\ i = j - 1 =>
                              lastNms.mask[j] =
                                  IF RatioExceeds(inter, den, cfg.nms_thresh)
                                  THEN 1 ELSE -1

\* batch item b of a tensor, as a batch of one
Slice(t, b) == [z \in Rng(1) |-> t[b]]

RowsOf(r, b) == [ids |-> r.ids[b], scores |-> r.scores[b], bboxes |-> r.bboxes[b]]

\* every way the partitions of one item's gated rows can come back from
\* the suppression step and be concatenated
AloneNms(c, gi, gs, gb) ==
    LET uniq == SortedSeq({gi[k] : k \in 1 .. Len(gi)})
        RECURSIVE go(_)
        go(u) ==
            IF u > Len(uniq) THEN {NoParts}
            ELSE LET p_ids == Select(gi, gi, uniq[u])
                     p_scores == Select(gs, gi, uniq[u])
                     p_bboxes == Select(gb, gi, uniq[u])
                     heads == {NonMaximumSuppression(p_ids, p_scores, p_bboxes,
                                                     c.nms_thresh, ind) :
                                  ind \in ArgsortDescending(p_scores)}
                 IN  {[ids |-> h.ids \o t.ids, scores |-> h.scores \o t.scores,
                       bboxes |-> h.bboxes \o t.bboxes] : h \in heads, t \in go(u + 1)}
    IN  go(1)

\* the rows a call returns for the picks sel when the batch holds this one
\* item only
AloneRows(c, h1, o1, w1, sel) ==
    LET row == HeatmapResize(PeakFilter(h1))[0]
        idx == [z \in Rng(1) |-> sel]
        sc == [z \in Rng(1) |-> [k \in 1 .. c.topk |-> row[sel[k]]]]
        cl == [z \in Rng(1) |-> [k \in 1 .. c.topk |->
                  FloorDivide(sel[k], Dim2(h1) * Dim3(h1))]]
        d == Decode(c, o1, w1, idx, 1, Dim2(h1), Dim3(h1))
    IN  IF IsErr(d) THEN {d}
        ELSE LET gi == WhereMask(sc, c.except_class_thresh, cl, 1)[0]
                 gs == WhereMask(sc, c.except_class_thresh, sc, ScoreOne)[0]
                 x0 == WhereMask(sc, c.except_class_thresh, d.xmin, CoordOne)[0]
                 y0 == WhereMask(sc, c.except_class_thresh, d.ymin, CoordOne)[0]
                 x1 == WhereMask(sc, c.except_class_thresh, d.xmax, CoordOne)[0]
                 y1 == WhereMask(sc, c.except_class_thresh, d.ymax, CoordOne)[0]
                 gb == [k \in 1 .. c.topk |-> <<x0[k], y0[k], x1[k], y1[k]>>]
                 times(bb) == [k \in 1 .. Len(bb) |->
                                  [e \in 1 .. 4 |-> bb[k][e] * c.scale]]
             IN  IF ~c.nms
                 THEN {[ids |-> gi, scores |-> gs, bboxes |-> times(gb)]}
                 ELSE {[ids |-> t.ids, scores |-> t.scores, bboxes |-> times(t.bboxes)] :
                          t \in AloneNms(c, gi, gs, gb)}

\* C21: the output rows of batch item b depend only on the heatmap, offset
\* and wh slices of item b, with nms enabled or disabled: its picks are a
\* top-k selection of its own filtered slice, and its rows are rows the call
\* returns for that slice alone, whatever the other items hold.
C21_BatchItemsIndependent ==
    Returned =>
        \A b \in Rng(Batch) :
            /\ indices[b] \in TopKSelections(
                   HeatmapResize(PeakFilter(Slice(heatmap, b)))[0], cfg.topk)
            /\ RowsOf(result, b)
                   \in AloneRows(cfg, Slice(heatmap, b), Slice(offset, b),
                                 Slice(wh, b), indices[b])

C21_Witness ==
    /\ Returned
    /\ heatmap = TwoItems
    /\ cfg.nms
    /\ cfg.topk = 2
    /\ result.ids[0] # result.ids[1]

\* C22: with nms enabled, every non-sentinel output row is a row the
\* nms-disabled output of the same call holds for that batch item, with the
\* same class id, score and box (same scale), negative coordinates included:
\* suppression alters no surviving detection and adds no row.
C22_SurvivorsUnaltered ==
    (Returned /\ cfg.nms) =>
        \A b \in Rng(Batch) : \A r \in 1 .. Len(result.ids[b]) :
            result.ids[b][r] # -1 =>
                \E k \in 1 .. cfg.topk :
                    /\ PlainResult(cfg).ids[b][k] = result.ids[b][r]
                    /\ PlainResult(cfg).scores[b][k] = result.scores[b][r]
                    /\ PlainResult(cfg).bboxes[b][k] = result.bboxes[b][r]

\* C23: with nms disabled, every non-sentinel output row has a class id in
\* [0, numClasses) and a score above except_class_thresh that is the input
\* heatmap value at its (class, gridY, gridX) cell; the cell is a 3x3 local
\* maximum of its class channel, and no two non-sentinel rows of a batch
\* item refer to the same cell.
C23_RowsAreLocalMaxima ==
    (Returned /\ ~cfg.nms) =>
        \A b \in Rng(Batch) : \A k \in 1 .. cfg.topk :
            result.ids[b][k] # -1 =>
                LET q == CellOf(indices[b][k])
                IN  /\ result.ids[b][k] \in Rng(Channel)
                    /\ result.ids[b][k] = q[1]
                    /\ result.scores[b][k] > cfg.except_class_thresh
                    /\ result.scores[b][k] = heatmap[b][q[1]][q[2]][q[3]]
                    /\ LocalMax(b, q[1], q[2], q[3])
                    /\ \A j \in 1 .. cfg.topk :
                          (j # k /\ result.ids[b][j] # -1)
                              => indices[b][j] # indices[b][k]

C23_Witness ==
    /\ Returned
    /\ ~cfg.nms
    /\ cfg.topk = 2
    /\ Channel = 1 /\ Height = 1 /\ Width = 2
    /\ heatmap[0][0][0][0] = 70
    /\ heatmap[0][0][0][1] = 90
    /\ result.ids[0] = <<0, -1>>
    /\ result.scores[0] = <<90, -ScoreOne>>

\* C24: with nms disabled and except_class_thresh in [0, 1], within each
\* batch item the output scores are non-increasing by row index and the
\* sentinel rows form a suffix of the topK rows.
C24_SentinelSuffix ==
    (Returned /\ ~cfg.nms) =>
        \A b \in Rng(Batch) : \A i, j \in 1 .. cfg.topk :
            i < j =>
                /\ result.scores[b][i] >= result.scores[b][j]
                /\ result.ids[b][i] = -1 => result.ids[b][j] = -1
                /\ result.scores[b][i] = -ScoreOne => result.scores[b][j] = -ScoreOne

C24_Witness ==
    /\ Returned
    /\ ~cfg.nms
    /\ heatmap = TwoPeaks
    /\ cfg.topk = 2
    /\ cfg.except_class_thresh = 70
    /\ result.ids[0] = <<0, -1>>
    /\ result.scores[0] = <<90, -ScoreOne>>

\* C25: with nms enabled and nms_thresh <= 0 or nms_thresh >= 1, every
\* forward call ends in an error and returns no detections.
C25_BadNmsThreshFails ==
    (pc = "done" /\ cfg.nms
        /\ (cfg.nms_thresh <= 0 \/ cfg.nms_thresh >= ScoreOne))
        => (IsErr(result) /\ ~Returned /\ stacked = <<>>)

C25_Witness ==
    /\ pc = "done"
    /\ cfg.nms
    /\ cfg.nms_thresh = ScoreOne
    /\ heatmap = TwoPeaks
    /\ "xs" \in DOMAIN gathered
    /\ result = Raise("unbound")

\* the rows of batch item b that the gate left with class c
PicksOfClass(b, c) == {k \in 1 .. cfg.topk : ids[b][k] = c}

\* C26: with nms enabled and a valid threshold, for every batch item and
\* every class c >= 0 with a pick above except_class_thresh, the highest
\* scoring pick of class c is in the output with class id c and its score.
C26_TopOfClassKept ==
    (Returned /\ cfg.nms) =>
        \A b \in Rng(Batch) : \A c \in Rng(Channel) :
            \A k \in PicksOfClass(b, c) :
                (\A j \in PicksOfClass(b, c) : scores[b][j] <= scores[b][k])
                    => \E r \in 1 .. Len(result.ids[b]) :
                          /\ result.ids[b][r] = c
                          /\ result.scores[b][r] = scores[b][k]
                          /\ scores[b][k] = heatmap[b][c][CellOf(indices[b][k])[2]]
                                                         [CellOf(indices[b][k])[3]]

C26_Witness ==
    /\ Returned
    /\ cfg.nms
    /\ heatmap = TwoPeaks
    /\ cfg.topk = 2
    /\ cfg.except_class_thresh = 1
    /\ PicksOfClass(0, 0) = {1, 2}
    /\ lastNms.n = 2
    /\ result.ids[0][1] = 0
    /\ result.scores[0][1] = 90

\* the rows of batch item b whose class id is among the first u unique ids
RowsCovered(b, u) ==
    {k \in 1 .. cfg.topk :
        \E v \in 1 .. u : UniqueId(ids)[v] = ids[b][k]}

\* C27: the suppression step ends for a partition of any size n >= 0 after
\* n - 1 passes of the loop when n >= 2 and none when n <= 1, the empty
\* partition of a class id of another batch item included, and the
\* partitions of a batch item cover each of its topK rows exactly once.
C27_PassesAndCover ==
    /\ "n" \in DOMAIN lastNms =>
          /\ lastNms.passes = IF lastNms.n >= 2 THEN lastNms.n - 1 ELSE 0
          /\ Len(lastNms.mask) = lastNms.n
          /\ lastNms.n = Cardinality({k \in 1 .. cfg.topk :
                                         ids[lastNms.b][k] = lastNms.uid})
    /\ pc = "nms" =>
          /\ Len(parts.ids) = Cardinality(RowsCovered(nmsb, nmsu - 1))
          /\ \A b \in Rng(Batch) : \A k \in 1 .. cfg.topk :
                Cardinality({v \in 1 .. Len(UniqueId(ids)) :
                                UniqueId(ids)[v] = ids[b][k]}) = 1
    /\ \A b \in 1 .. Len(stacked) :
          /\ Len(stacked[b].ids) = cfg.topk
          /\ Len(stacked[b].scores) = cfg.topk
          /\ Len(stacked[b].bboxes) = cfg.topk

C27_Witness ==
    /\ Returned
    /\ cfg.nms
    /\ heatmap = TwoItems
    /\ cfg.topk = 2
    /\ cfg.except_class_thresh = 70
    /\ UniqueId(ids) = <<-1, 0>>
    /\ lastNms.b = 1 /\ lastNms.uid = 0
    /\ lastNms.n = 0 /\ lastNms.passes = 0
    /\ Len(stacked) = 2
    /\ Len(stacked[2].ids) = 2

====
